---- MODULE Spec2Model ----
(***************************************************************************)
(* Model of school_data.py: the SchoolStats object built from a loaded     *)
(* table (a pandas DataFrame), its 3-dimensional enrollment array and the  *)
(* statistics computed from them.                                          *)
(*                                                                         *)
(* Conventions.                                                            *)
(*  - A DataFrame is a sequence of rows; a row is a record with the        *)
(*    columns 'School Name', 'School Code', 'School Year' and the three    *)
(*    grade columns (field grades, in the order Grade 10, 11, 12).         *)
(*  - A missing grade value (NaN) is the integer NaN below; the Python     *)
(*    value None, where it is the result of a numeric reduction, is the    *)
(*    integer NoneValue.  Enrollments themselves are non-negative.         *)
(*  - The dict school_codes is a sequence of (name, code) entries in       *)
(*    insertion order, as a Python dict keeps them.                        *)
(*  - Positions and indices are 0-based, as in Python; sequences are       *)
(*    1-based, so position p is element p + 1.                             *)
(*  - int(Series) is modelled for the pandas versions in which a Series of *)
(*    length one converts to its element and every other length raises     *)
(*    TypeError; np.mean(DataFrame) reduces over both axes, skipping NaN.  *)
(***************************************************************************)
EXTENDS Integers, Sequences, FiniteSets

VARIABLES data, school_codes, enrollment_array, result

vars == <<data, school_codes, enrollment_array, result>>

-----------------------------------------------------------------------------
(* Values and bounds *)

NaN == -1
NoneValue == -2
Threshold == 500
StartYear == 2013
EndYear == 2022

MaxRows == 2

SchoolNames == {"A", "B"}
SchoolCodes == {1, 2}
SchoolYears == {2013, 2022}
GradeRows == {<<NaN, NaN, 500>>, <<501, 600, NaN>>}
Garbage == {0, 999}

\* The rows a table is drawn from.  School "A" always carries code 1; school
\* "B" carries code 1 (shared with "A") or code 2, possibly both in one table.
Rows == {r \in [name : SchoolNames, code : SchoolCodes, year : SchoolYears, grades : GradeRows] :
            r.name = "A" => r.code = 1}
Tables == UNION {[1..n -> Rows] : n \in 0..MaxRows}

ByName(n) == [isint |-> FALSE, str |-> n, int |-> 0]
ByCode(c) == [isint |-> TRUE, str |-> "", int |-> c]
NoIdentifier == [isint |-> FALSE, str |-> "", int |-> 0]
Identifiers == {ByName(n) : n \in SchoolNames \cup {"Z"}} \cup {ByCode(c) : c \in SchoolCodes \cup {9}}

-----------------------------------------------------------------------------
(* Sequence helpers standing for pandas / numpy / builtin primitives *)

SeqSet(s) == {s[i] : i \in 1..Len(s)}

RECURSIVE SeqSum(_)
SeqSum(s) == IF s = <<>> THEN 0 ELSE s[1] + SeqSum(Tail(s))

SeqMax(s) == CHOOSE x \in SeqSet(s) : \A y \in SeqSet(s) : y <= x
SeqMin(s) == CHOOSE x \in SeqSet(s) : \A y \in SeqSet(s) : x <= y

RECURSIVE Flatten(_)
Flatten(ss) == IF ss = <<>> THEN <<>> ELSE ss[1] \o Flatten(Tail(ss))

\* Series.unique(): the distinct values in order of first appearance.
RECURSIVE Unique(_)
Unique(s) ==
    IF s = <<>> THEN <<>>
    ELSE LET u == Unique(SubSeq(s, 1, Len(s) - 1))
             x == s[Len(s)]
         IN  IF x \in SeqSet(u) THEN u ELSE Append(u, x)

\* list.index(x): 0-based position of the first occurrence.
ListIndex(s, x) == (CHOOSE i \in 1..Len(s) : s[i] = x /\ \A j \in 1..(i - 1) : s[j] # x) - 1

\* np.floor(np.mean(s)) of a non-empty integer sequence.
FloorMean(s) == SeqSum(s) \div Len(s)

\* A sequence sorted ascending (np.median sorts a copy).
RECURSIVE SortSeq(_)
SortSeq(s) ==
    IF s = <<>> THEN <<>>
    ELSE LET m == SeqMin(s)
             i == CHOOSE k \in 1..Len(s) : s[k] = m
         IN  <<m>> \o SortSeq(SubSeq(s, 1, i - 1) \o SubSeq(s, i + 1, Len(s)))

\* int(np.median(s)): middle element, or the mean of the two middle elements
\* truncated to an integer (values are positive here).
IntMedian(s) ==
    LET t == SortSeq(s)
        n == Len(t)
    IN  IF n % 2 = 1 THEN t[(n + 1) \div 2]
        ELSE (t[n \div 2] + t[n \div 2 + 1]) \div 2

-----------------------------------------------------------------------------
(* SchoolStats.__init__ *)

NoArray == [status |-> "None", shape |-> <<0, 0, 0>>, cells |-> <<>>]

\* Mutant of DictFromRows: the dict built from the rows in reverse order.
RECURSIVE DictFromRowsReversed(_)
DictFromRowsReversed(d) ==
    IF d = <<>> THEN <<>>
    ELSE LET m == DictFromRowsReversed(Tail(d))
             r == d[1]
             e == [name |-> r.name, code |-> r.code]
         IN  IF \E i \in 1..Len(m) : m[i].name = r.name
             THEN [i \in 1..Len(m) |-> IF m[i].name = r.name THEN e ELSE m[i]]
             ELSE Append(m, e)

\* {name: code for name, code in zip(...)}: a later code for a name overwrites
\* the earlier one and keeps the name's insertion position.
RECURSIVE DictFromRows(_)
DictFromRows(d) ==
    IF d = <<>> THEN <<>>
    ELSE LET m == DictFromRows(SubSeq(d, 1, Len(d) - 1))
             r == d[Len(d)]
             e == [name |-> r.name, code |-> r.code]
         IN  IF \E i \in 1..Len(m) : m[i].name = r.name
             THEN [i \in 1..Len(m) |-> IF m[i].name = r.name THEN e ELSE m[i]]
             ELSE Append(m, e)

DictKeys(m) == [i \in 1..Len(m) |-> m[i].name]
DictGet(m, n) == m[CHOOSE i \in 1..Len(m) : m[i].name = n].code

-----------------------------------------------------------------------------
(* SchoolStats.create_enrollment_array *)

Grades == <<1, 2, 3>>

\* self.data[(name == school) & (year == year)][grade]: the grade column of
\* the matching rows, in row order.
RECURSIVE MatchingValues(_, _, _, _)
MatchingValues(d, school, year, k) ==
    IF d = <<>> THEN <<>>
    ELSE LET rest == MatchingValues(Tail(d), school, year, k)
         IN  IF d[1].name = school /\ d[1].year = year
             THEN <<d[1].grades[k]>> \o rest
             ELSE rest

\* int(value) raises TypeError unless the selection holds exactly one row;
\* it is not evaluated when some selected value is missing.
CellRaises(d, school, year, k) ==
    LET value == MatchingValues(d, school, year, k)
    IN  NaN \notin SeqSet(value) /\ Len(value) # 1

\* schools and years of the array's first two axes, in first-appearance order.
SchoolAxis(d) == Unique([i \in 1..Len(d) |-> d[i].name])
YearAxis(d) == Unique([i \in 1..Len(d) |-> d[i].year])

\* Mutant of CellValue: the assignment written as += on the array already
\* held by the object, so that a rebuild adds to the cells of the last build.
CellValueAccumulate(d, school, year, k) ==
    LET value == MatchingValues(d, school, year, k)
        new == IF NaN \in SeqSet(value) THEN 0 ELSE value[1]
    IN  IF enrollment_array.status = "array"
        THEN enrollment_array.cells[ListIndex(SchoolAxis(d), school) + 1]
                                   [ListIndex(YearAxis(d), year) + 1][k] + new
        ELSE new

\* int(value) if not pd.isna(value).any() else 0
CellValue(d, school, year, k) ==
    LET value == MatchingValues(d, school, year, k)
    IN  IF NaN \in SeqSet(value) THEN 0 ELSE value[1]

\* Position of cell (i, j, k) in the order the three nested loops visit it,
\* ny being the number of years.
LoopOrder(ny, i, j, k) == ((i - 1) * ny + (j - 1)) * Len(Grades) + (k - 1)

\* Loop positions of the cells whose assignment raises.
RaisingCells(d, schools, years) ==
    {LoopOrder(Len(years), c[1], c[2], c[3]) : c \in
        {c \in (1..Len(schools)) \X (1..Len(years)) \X (1..Len(Grades)) :
            CellRaises(d, schools[c[1]], years[c[2]], c[3])}}

CreateRaises(d) == RaisingCells(d, SchoolAxis(d), YearAxis(d)) # {}

\* The array after the loops: np.empty leaves every cell uninitialized; the
\* loops fill the cells in order up to the first assignment that raises.  An
\* uninitialized cell holds the value g.
FilledArray(d, g) ==
    LET schools == SchoolAxis(d)
        years == YearAxis(d)
        bad == RaisingCells(d, schools, years)
        stop == IF bad = {} THEN Len(schools) * Len(years) * Len(Grades)
                ELSE CHOOSE x \in bad : \A y \in bad : x <= y
    IN  [status |-> "array",
         shape |-> <<Len(schools), Len(years), Len(Grades)>>,
         cells |-> [i \in 1..Len(schools) |-> [j \in 1..Len(years) |-> [k \in 1..Len(Grades) |->
                      IF LoopOrder(Len(years), i, j, k) < stop
                      THEN CellValue(d, schools[i], years[j], k)
                      ELSE g]]]]

\* What a call left behind: the operation, its argument, how it ended ("ok"
\* or the exception raised) and the value it returned, if any.
NoMedian == [isstr |-> FALSE, str |-> "", int |-> 0]

NoStats ==
    [school_name |-> "", school_code |-> 0,
     mean_grade_10 |-> 0, mean_grade_11 |-> 0, mean_grade_12 |-> 0,
     highest_enrollment |-> 0, lowest_enrollment |-> 0,
     yearly_totals |-> <<>>, total_enrollment |-> 0,
     mean_yearly_enrollment |-> 0,
     enrollments_over_500 |-> <<>>, median_over_500 |-> NoMedian]

NoGeneral ==
    [mean_2013 |-> 0, mean_2022 |-> 0, total_graduating_2022 |-> 0,
     highest_enrollment |-> 0, lowest_enrollment |-> 0]

Outcome(op, id, status, index, stats, general) ==
    [op |-> op, id |-> id, status |-> status, index |-> index,
     stats |-> stats, general |-> general]

Raised(op, id, exception) == Outcome(op, id, exception, 0, NoStats, NoGeneral)

CreateEnrollmentArray ==
    /\ IF CreateRaises(data)
       THEN /\ \E g \in Garbage : enrollment_array' = FilledArray(data, g)
            /\ result' = Raised("create_enrollment_array", NoIdentifier, "TypeError")
       ELSE /\ enrollment_array' = FilledArray(data, 0)
            /\ result' = Outcome("create_enrollment_array", NoIdentifier, "ok", 0, NoStats, NoGeneral)
    /\ UNCHANGED <<data, school_codes>>

-----------------------------------------------------------------------------
(* SchoolStats.get_school_index *)

NoName == "None"

\* Mutant of FirstNameWithCode: the last matching name instead of the first.
LastNameWithCode(m, c) ==
    IF \E i \in 1..Len(m) : m[i].code = c
    THEN m[CHOOSE i \in 1..Len(m) : m[i].code = c /\ \A j \in (i + 1)..Len(m) : m[j].code # c].name
    ELSE NoName

\* next((name for name, code in items() if code == identifier), None)
FirstNameWithCode(m, c) ==
    IF \E i \in 1..Len(m) : m[i].code = c
    THEN m[CHOOSE i \in 1..Len(m) : m[i].code = c /\ \A j \in 1..(i - 1) : m[j].code # c].name
    ELSE NoName

\* Mutant of ResolveName: an unmatched code falls back to the first school
\* instead of None.
ResolveNameDefaultFirst(m, identifier) ==
    IF identifier.isint
    THEN (IF FirstNameWithCode(m, identifier.int) = NoName /\ m # <<>>
          THEN m[1].name
          ELSE FirstNameWithCode(m, identifier.int))
    ELSE identifier.str

\* school_name: the reverse lookup for an int, the identifier itself otherwise.
ResolveName(m, identifier) ==
    IF identifier.isint THEN FirstNameWithCode(m, identifier.int) ELSE identifier.str

IndexRaises(m, identifier) == ResolveName(m, identifier) \notin SeqSet(DictKeys(m))

get_school_index(m, identifier) == ListIndex(DictKeys(m), ResolveName(m, identifier))

GetSchoolIndex(identifier) ==
    /\ result' = IF IndexRaises(school_codes, identifier)
                 THEN Raised("get_school_index", identifier, "ValueError")
                 ELSE Outcome("get_school_index", identifier, "ok",
                              get_school_index(school_codes, identifier), NoStats, NoGeneral)
    /\ UNCHANGED <<data, school_codes, enrollment_array>>

-----------------------------------------------------------------------------
(* SchoolStats.calculate_school_stats *)

\* school_data[:, k]
GradeColumn(school_data, k) == [j \in 1..Len(school_data) |-> school_data[j][k]]

\* np.sum(school_data, axis=1)
YearlyTotals(school_data) == [j \in 1..Len(school_data) |-> SeqSum(school_data[j])]

\* school_data[school_data > 500], in row-major order
EnrollmentsOver500(school_data) ==
    SelectSeq(Flatten(school_data), LAMBDA x : x > Threshold)

\* Mutant of MedianOver500: 0 in place of the marker string.
MedianOver500Zero(over) ==
    [isstr |-> FALSE, str |-> "", int |-> IF Len(over) > 0 THEN IntMedian(over) ELSE 0]

\* int(np.median(...)) if any value is over 500, else the marker string.
MedianOver500(over) ==
    IF Len(over) > 0
    THEN [isstr |-> FALSE, str |-> "", int |-> IntMedian(over)]
    ELSE [isstr |-> TRUE, str |-> "No enrollments over 500", int |-> 0]

\* Mutant of TotalEnrollment: the sum of the first year only.
TotalEnrollmentFirstYear(school_data) == SeqSum(school_data[1])

\* np.sum(school_data)
TotalEnrollment(school_data) == SeqSum(Flatten(school_data))

SchoolStatsRecord(m, arr, index) ==
    LET school_name == DictKeys(m)[index + 1]
        school_data == arr.cells[index + 1]
        over == EnrollmentsOver500(school_data)
    IN  [school_name |-> school_name,
         school_code |-> DictGet(m, school_name),
         mean_grade_10 |-> FloorMean(GradeColumn(school_data, 1)),
         mean_grade_11 |-> FloorMean(GradeColumn(school_data, 2)),
         mean_grade_12 |-> FloorMean(GradeColumn(school_data, 3)),
         highest_enrollment |-> SeqMax(Flatten(school_data)),
         lowest_enrollment |-> SeqMin(Flatten(school_data)),
         yearly_totals |-> YearlyTotals(school_data),
         total_enrollment |-> TotalEnrollment(school_data),
         mean_yearly_enrollment |-> FloorMean(YearlyTotals(school_data)),
         enrollments_over_500 |-> over,
         median_over_500 |-> MedianOver500(over)]

\* get_school_index raises first; subscripting None raises TypeError.
CalculateSchoolStats(identifier) ==
    /\ result' =
          IF IndexRaises(school_codes, identifier)
          THEN Raised("calculate_school_stats", identifier, "ValueError")
          ELSE IF enrollment_array.status = "None"
          THEN Raised("calculate_school_stats", identifier, "TypeError")
          ELSE Outcome("calculate_school_stats", identifier, "ok",
                       get_school_index(school_codes, identifier),
                       SchoolStatsRecord(school_codes, enrollment_array,
                                         get_school_index(school_codes, identifier)),
                       NoGeneral)
    /\ UNCHANGED <<data, school_codes, enrollment_array>>

-----------------------------------------------------------------------------
(* SchoolStats.calculate_general_stats *)

\* The non-missing values of the three grade columns of the rows of a year.
RECURSIVE YearValues(_, _)
YearValues(d, year) ==
    IF d = <<>> THEN <<>>
    ELSE (IF d[1].year = year
          THEN SelectSeq(d[1].grades, LAMBDA x : x # NaN)
          ELSE <<>>) \o YearValues(Tail(d), year)

\* np.floor(np.mean(frame)): NaN when no value is left to average.
YearMean(d, year) ==
    LET v == YearValues(d, year)
    IN  IF v = <<>> THEN NaN ELSE FloorMean(v)

\* np.sum(self.data[year rows]['Grade 12']): missing values are skipped.
RECURSIVE Grade12Total(_, _)
Grade12Total(d, year) ==
    IF d = <<>> THEN 0
    ELSE (IF d[1].year = year /\ d[1].grades[3] # NaN THEN d[1].grades[3] ELSE 0)
         + Grade12Total(Tail(d), year)

\* np.max / np.min of the array: ValueError on a zero-size array; None for
\* the None the attribute holds before the array is created.
ReductionRaises(arr) == arr.status = "array" /\ Flatten(arr.cells) = <<>>

NpMax(arr) == IF arr.status = "None" THEN NoneValue ELSE SeqMax(Flatten(Flatten(arr.cells)))
NpMin(arr) == IF arr.status = "None" THEN NoneValue ELSE SeqMin(Flatten(Flatten(arr.cells)))

GeneralStatsRecord(d, arr) ==
    [mean_2013 |-> YearMean(d, StartYear),
     mean_2022 |-> YearMean(d, EndYear),
     total_graduating_2022 |-> Grade12Total(d, EndYear),
     highest_enrollment |-> NpMax(arr),
     lowest_enrollment |-> NpMin(arr)]

\* Mutant of CalculateGeneralStats: the maximum and minimum taken over the
\* grade columns of the table (NaN when they hold no value) instead of the array.
CalculateGeneralStatsFromTable ==
    LET v == Flatten([i \in 1..Len(data) |-> SelectSeq(data[i].grades, LAMBDA x : x # NaN)])
    IN  /\ result' = Outcome("calculate_general_stats", NoIdentifier, "ok", 0, NoStats,
                             [mean_2013 |-> YearMean(data, StartYear),
                              mean_2022 |-> YearMean(data, EndYear),
                              total_graduating_2022 |-> Grade12Total(data, EndYear),
                              highest_enrollment |-> IF v = <<>> THEN NaN ELSE SeqMax(v),
                              lowest_enrollment |-> IF v = <<>> THEN NaN ELSE SeqMin(v)])
        /\ UNCHANGED <<data, school_codes, enrollment_array>>

CalculateGeneralStats ==
    /\ result' =
          IF ReductionRaises(enrollment_array)
          THEN Raised("calculate_general_stats", NoIdentifier, "ValueError")
          ELSE Outcome("calculate_general_stats", NoIdentifier, "ok", 0, NoStats,
                       GeneralStatsRecord(data, enrollment_array))
    /\ UNCHANGED <<data, school_codes, enrollment_array>>

-----------------------------------------------------------------------------

Init ==
    /\ data \in Tables
    /\ school_codes = DictFromRows(data)
    /\ enrollment_array = NoArray
    /\ result = Outcome("init", NoIdentifier, "ok", 0, NoStats, NoGeneral)

Next ==
    \/ CreateEnrollmentArray
    \/ \E identifier \in Identifiers : GetSchoolIndex(identifier)
    \/ \E identifier \in Identifiers : CalculateSchoolStats(identifier)
    \/ CalculateGeneralStats

Spec == Init /\ [][Next]_vars

-----------------------------------------------------------------------------
(* The table read directly, for stating the properties below *)

RowIndices == 1..Len(data)
TableNames == {data[r].name : r \in RowIndices}
TableCodes == {data[r].code : r \in RowIndices}
TableYears == {data[r].year : r \in RowIndices}
GradePositions == 1..3

\* The rows of one (school, year) pair.
RowsOf(n, y) == {r \in RowIndices : data[r].name = n /\ data[r].year = y}

HasDuplicates == \E n \in TableNames, y \in TableYears : Cardinality(RowsOf(n, y)) > 1

\* 0-based rank of a name / year in order of first appearance in the table.
FirstRowOfName(n) == CHOOSE r \in RowIndices : data[r].name = n /\ \A q \in 1..(r - 1) : data[q].name # n
FirstRowOfYear(y) == CHOOSE r \in RowIndices : data[r].year = y /\ \A q \in 1..(r - 1) : data[q].year # y
NameRank(n) == Cardinality({data[q].name : q \in 1..(FirstRowOfName(n) - 1)})
YearRank(y) == Cardinality({data[q].year : q \in 1..(FirstRowOfYear(y) - 1)})

\* The code in the last row of a name: the one the mapping keeps.
LastCode(n) == data[CHOOSE r \in RowIndices : data[r].name = n /\ \A q \in (r + 1)..Len(data) : data[q].name # n].code

\* create_enrollment_array runs to completion on this table.
Completes ==
    \A n \in TableNames, y \in TableYears, k \in GradePositions :
        \/ \E r \in RowsOf(n, y) : data[r].grades[k] = NaN
        \/ Cardinality(RowsOf(n, y)) = 1

Built == enrollment_array.status = "array" /\ Completes

\* The enrollment the table holds for (school, year, grade): 0 when there is
\* no row or a missing value, the value of the row otherwise.
ExpectedCell(n, y, k) ==
    IF RowsOf(n, y) = {} \/ \E r \in RowsOf(n, y) : data[r].grades[k] = NaN
    THEN 0
    ELSE data[CHOOSE r \in RowsOf(n, y) : TRUE].grades[k]

\* The cell under the policy "first match wins".
FirstMatchCell(n, y, k) ==
    IF RowsOf(n, y) = {} THEN 0
    ELSE LET r == CHOOSE r \in RowsOf(n, y) : \A q \in RowsOf(n, y) : r <= q
         IN  IF data[r].grades[k] = NaN THEN 0 ELSE data[r].grades[k]

ArrayCell(n, y, k) == enrollment_array.cells[NameRank(n) + 1][YearRank(y) + 1][k]

\* The identifier is neither a name nor a code appearing in the table.
Absent(identifier) ==
    IF identifier.isint THEN identifier.int \notin TableCodes
    ELSE identifier.str \notin TableNames

\* The slice of the array a returned statistics record was computed from.
ResultSlice == enrollment_array.cells[result.index + 1]

RowSum3(row) == row[1] + row[2] + row[3]

-----------------------------------------------------------------------------
(* C1 *)

\* C1: for every table (here: every table without duplicate (school, year)
\* rows), create_enrollment_array completes without error and leaves every
\* cell equal to the table's enrollment for that school, year and grade, or 0
\* where the value is missing or the table has no row for the pair.
C1_CubeMatchesTable ==
    (result.op = "create_enrollment_array" /\ ~HasDuplicates) =>
        /\ result.status = "ok"
        /\ \A n \in TableNames, y \in TableYears, k \in GradePositions :
              ArrayCell(n, y, k) = ExpectedCell(n, y, k)

-----------------------------------------------------------------------------
(* C2 *)

\* C2 as stated: for every school of the table, get_school_index called with
\* the school's code returns the position get_school_index returns for the
\* school's name, also when two names share a code.
C2_NameAndCodeSamePosition ==
    (result.op = "get_school_index" /\ result.id.isint) =>
        \A n \in TableNames :
            LastCode(n) = result.id.int =>
                /\ result.status = "ok"
                /\ result.index = get_school_index(school_codes, ByName(n))

\* C2 amended: called with the code of a school, get_school_index returns the
\* position of the earliest-appearing name that carries this code; this is the
\* position returned for the school's name exactly when no name appearing
\* earlier in the table carries the same code.
C2_CodeResolvesToFirstNameWithCode ==
    (result.op = "get_school_index" /\ result.id.isint) =>
        \A n \in TableNames :
            LastCode(n) = result.id.int =>
                LET earlier == {e \in TableNames :
                                  LastCode(e) = result.id.int /\ NameRank(e) < NameRank(n)}
                IN  /\ result.status = "ok"
                    /\ earlier = {} => result.index = NameRank(n)
                    /\ earlier # {} => result.index < NameRank(n)
                    /\ (result.index = get_school_index(school_codes, ByName(n)))
                          <=> (earlier = {})

\* C2 witness: a code shared by two names has been resolved to the earlier one.
C2_Witness ==
    /\ result.op = "get_school_index"
    /\ result.id.isint
    /\ result.status = "ok"
    /\ \E n1, n2 \in TableNames :
          /\ LastCode(n1) = result.id.int
          /\ LastCode(n2) = result.id.int
          /\ NameRank(n1) < NameRank(n2)
          /\ result.index = NameRank(n1)

-----------------------------------------------------------------------------
(* C3 *)

\* C3: for an identifier that is neither a name nor a code appearing in the
\* table, get_school_index raises ValueError, and calculate_school_stats
\* raises ValueError and returns no statistics record.
C3_UnknownIdentifierRaises ==
    (result.op \in {"get_school_index", "calculate_school_stats"} /\ Absent(result.id)) =>
        /\ result.status = "ValueError"
        /\ result.stats = NoStats

\* C3 witness: calculate_school_stats has raised ValueError for an absent
\* identifier on a non-empty table whose array exists.
C3_Witness ==
    /\ result.op = "calculate_school_stats"
    /\ Absent(result.id)
    /\ result.status = "ValueError"
    /\ data # <<>>
    /\ enrollment_array.status = "array"

-----------------------------------------------------------------------------
(* C4 *)

\* C4: the total_enrollment of a returned record equals the sum of all cells
\* of the school's slice of the array and the sum of the record's
\* yearly_totals.
C4_TotalIsSliceSum ==
    (result.op = "calculate_school_stats" /\ result.status = "ok") =>
        /\ result.stats.total_enrollment
              = SeqSum([j \in 1..Len(ResultSlice) |-> RowSum3(ResultSlice[j])])
        /\ result.stats.total_enrollment = SeqSum(result.stats.yearly_totals)

\* C4 witness: a record over two years, each with a positive yearly total.
C4_Witness ==
    /\ result.op = "calculate_school_stats"
    /\ result.status = "ok"
    /\ Len(result.stats.yearly_totals) = 2
    /\ result.stats.yearly_totals[1] > 0
    /\ result.stats.yearly_totals[2] > 0

-----------------------------------------------------------------------------
(* C5 *)

\* C5: median_over_500 of a returned record is the marker string
\* "No enrollments over 500" exactly when no cell of the school's slice is
\* strictly greater than 500; otherwise it is an integer, never the marker.
C5_MarkerIffNoneOver500 ==
    (result.op = "calculate_school_stats" /\ result.status = "ok") =>
        LET median == result.stats.median_over_500
            none == \A j \in 1..Len(ResultSlice), k \in GradePositions :
                        ResultSlice[j][k] <= Threshold
        IN  /\ median.isstr <=> none
            /\ median.isstr => median.str = "No enrollments over 500"
            /\ ~median.isstr => median.int \in Int /\ median.int > Threshold

\* C5 witness: the marker returned for a slice that holds a cell equal to 500.
C5_Witness ==
    /\ result.op = "calculate_school_stats"
    /\ result.status = "ok"
    /\ result.stats.median_over_500.isstr
    /\ \E j \in 1..Len(ResultSlice), k \in GradePositions : ResultSlice[j][k] = Threshold

-----------------------------------------------------------------------------
(* C6 *)

\* C6: on a table with more than one row for some (school, year) pair,
\* create_enrollment_array follows one of two policies: it fails, or it
\* completes with the first matching row's value in every cell.
C6_SingleDuplicatePolicy ==
    (result.op = "create_enrollment_array" /\ HasDuplicates) =>
        \/ result.status = "TypeError"
        \/ /\ result.status = "ok"
           /\ \A n \in TableNames, y \in TableYears, k \in GradePositions :
                 ArrayCell(n, y, k) = FirstMatchCell(n, y, k)

-----------------------------------------------------------------------------
(* C7 *)

EarliestYear == CHOOSE y \in TableYears : \A z \in TableYears : y <= z
LatestYear == CHOOSE y \in TableYears : \A z \in TableYears : z <= y

\* C7: called once the array is built, calculate_general_stats computes its
\* start-year mean from the rows of the earliest year of the table, and its
\* end-year mean and Grade-12 total from the rows of the latest year of the
\* table.
C7_YearsFromData ==
    (result.op = "calculate_general_stats" /\ result.status = "ok" /\ Built /\ data # <<>>) =>
        /\ result.general.mean_2013 = YearMean(data, EarliestYear)
        /\ result.general.mean_2022 = YearMean(data, LatestYear)
        /\ result.general.total_graduating_2022 = Grade12Total(data, LatestYear)

-----------------------------------------------------------------------------
(* C8 *)

\* C8: when the table has no rows and the array has been created (zero
\* schools, zero years), calculate_general_stats ends in an error, and
\* calculate_school_stats ends in an error for every identifier; neither
\* returns a record.
C8_EmptyTableStatsRaise ==
    (data = <<>> /\ enrollment_array.status = "array") =>
        /\ enrollment_array.shape = <<0, 0, 3>>
        /\ result.op \in {"calculate_general_stats", "calculate_school_stats"} =>
              /\ result.status = "ValueError"
              /\ result.stats = NoStats
              /\ result.general = NoGeneral

\* C8 witness: calculate_general_stats has raised on the array of an empty table.
C8_Witness ==
    /\ data = <<>>
    /\ enrollment_array.status = "array"
    /\ result.op = "calculate_general_stats"
    /\ result.status = "ValueError"

-----------------------------------------------------------------------------
(* C9 *)

\* C9: once create_enrollment_array has completed, every further call leaves
\* the array, the table and the name-to-code mapping unchanged, and a
\* calculate_school_stats call repeated with the same identifier returns the
\* same record.
C9_ArrayStableOnceBuilt ==
    [][Built =>
        /\ enrollment_array' = enrollment_array
        /\ data' = data
        /\ school_codes' = school_codes
        /\ (/\ result.op = "calculate_school_stats"
            /\ result'.op = "calculate_school_stats"
            /\ result'.id = result.id) => result' = result]_vars

\* C9 witness: a record returned from a completely built, non-empty array.
C9_Witness ==
    /\ Built
    /\ data # <<>>
    /\ result.op = "calculate_school_stats"
    /\ result.status = "ok"
    /\ result.stats.total_enrollment > 0

-----------------------------------------------------------------------------
(* C10 *)

\* C10: the position get_school_index returns for a name is the name's rank
\* in first-appearance order, the order of the array's first axis; the
\* school_name and school_code of a returned record are those of the school
\* whose rows filled the slice the statistics were computed from.
C10_IndexMatchesArrayAxis ==
    /\ (result.op = "get_school_index" /\ ~result.id.isint /\ result.status = "ok") =>
          /\ result.index = NameRank(result.id.str)
          /\ result.index = ListIndex(SchoolAxis(data), result.id.str)
    /\ (result.op = "calculate_school_stats" /\ result.status = "ok" /\ Built) =>
          /\ result.stats.school_name \in TableNames
          /\ ~result.id.isint => result.stats.school_name = result.id.str
          /\ result.stats.school_code = LastCode(result.stats.school_name)
          /\ \A y \in TableYears :
                result.stats.yearly_totals[YearRank(y) + 1]
                  = ExpectedCell(result.stats.school_name, y, 1)
                    + ExpectedCell(result.stats.school_name, y, 2)
                    + ExpectedCell(result.stats.school_name, y, 3)

\* C10 witness: a record for the second school of a two-school table, with
\* enrollments of its own.
C10_Witness ==
    /\ result.op = "calculate_school_stats"
    /\ result.status = "ok"
    /\ Built
    /\ result.index = 1
    /\ result.stats.total_enrollment > 0
====
